---- MODULE Spec2Model ----
(***************************************************************************)
(* Model of SurfaceArea.py: surface_area(DEM, resolution), the triangulated *)
(* surface-area estimator, and the driver code around it.                   *)
(*                                                                          *)
(* Numbers.  The program computes in IEEE floating point.  Here a float is  *)
(* a record: a finite value is [k |-> "fin", v |-> n], n an integer count   *)
(* of 1/Scale units, and NaN and the two infinities are values of their own *)
(* with the IEEE rules for them.  Every multiplication, halving and square  *)
(* root rounds its result to the nearest unit, as a float operation rounds  *)
(* to the nearest representable value; additions of finite values are       *)
(* exact.  A statement about real-valued equality is therefore made up to   *)
(* a stated rounding slack (RoundOff below).                                *)
(***************************************************************************)
EXTENDS Integers, Sequences, FiniteSets

VARIABLES DEM, resolution, pc, area, raised, prev, visited, acc

vars == <<DEM, resolution, pc, area, raised, prev, visited, acc>>

---------------------------------------------------------------------------
(* Bounds of the model *)

Scale == 1000
MaxRows == 3
MaxCols == 3
MaxCells == 9
MaxElev == 1
MaxPeaks == 1
MaxRes == 2

---------------------------------------------------------------------------
(* Float values and the operations the program applies to them *)

Fin(n) == [k |-> "fin", v |-> n]
NaN == [k |-> "nan", v |-> 0]
Inf(s) == [k |-> "inf", v |-> s]

Num(n) == Fin(n * Scale)

Abs(n) == IF n < 0 THEN -n ELSE n
Sgn(n) == IF n < 0 THEN -1 ELSE 1

RECURSIVE Isqrt(_)
Isqrt(n) ==
    IF n < 2 THEN n
    ELSE LET s == 2 * Isqrt(n \div 4)
         IN  IF (s + 1) * (s + 1) <= n THEN s + 1 ELSE s

\* round(sqrt(n)) for n >= 0
SqrtNearest(n) ==
    LET r == Isqrt(n) IN IF n - r * r > r THEN r + 1 ELSE r

\* round(a * b / Scale) for a, b >= 0, without forming a * b
MulNearest(a, b) ==
    (a \div Scale) * b + ((a % Scale) * b + Scale \div 2) \div Scale

FAdd(a, b) ==
    IF a.k = "nan" \/ b.k = "nan" THEN NaN
    ELSE IF a.k = "inf" THEN (IF b.k = "inf" /\ b.v # a.v THEN NaN ELSE a)
    ELSE IF b.k = "inf" THEN b
    ELSE Fin(a.v + b.v)

FNeg(a) == [a EXCEPT !.v = -a.v]

FSub(a, b) == FAdd(a, FNeg(b))

FMul(a, b) ==
    IF a.k = "nan" \/ b.k = "nan" THEN NaN
    ELSE IF a.k = "inf" \/ b.k = "inf"
         THEN (IF a.v = 0 \/ b.v = 0 THEN NaN ELSE Inf(Sgn(a.v) * Sgn(b.v)))
    ELSE Fin(Sgn(a.v) * Sgn(b.v) * MulNearest(Abs(a.v), Abs(b.v)))

\* 0.5 * a
FHalf(a) ==
    IF a.k = "fin" THEN Fin(Sgn(a.v) * ((Abs(a.v) + 1) \div 2)) ELSE a

\* np.sqrt(a): NaN (with a warning, no exception) for a negative argument
FSqrt(a) ==
    IF a.k = "nan" THEN NaN
    ELSE IF a.k = "inf" THEN (IF a.v = 1 THEN a ELSE NaN)
    ELSE IF a.v < 0 THEN NaN
    ELSE Fin(SqrtNearest(a.v * Scale))

\* a ** 2.0
FSquare(a) == FMul(a, a)

\* a ** 0.5
FRoot(a) ==
    IF a.k = "inf" THEN Inf(1) ELSE FSqrt(a)

---------------------------------------------------------------------------
(* numpy arrays: a 2-D array is a sequence of rows *)

\* s[0:-1]
SliceInit(s) == SubSeq(s, 1, Len(s) - 1)

\* s[1:]
SliceTail(s) == SubSeq(s, 2, Len(s))

\* D[0:-1, 0:-1]
TopLeft(D) == [i \in 1..Len(SliceInit(D)) |-> SliceInit(D[i])]

\* D[0:-1, 1:]
TopRight(D) == [i \in 1..Len(SliceInit(D)) |-> SliceTail(D[i])]

\* D[1:, 0:-1]
BottomLeft(D) == [i \in 1..Len(SliceTail(D)) |-> SliceInit(D[i + 1])]

\* D[1:, 1:]
BottomRight(D) == [i \in 1..Len(SliceTail(D)) |-> SliceTail(D[i + 1])]

\* the number of elements of a sequence
Size(s) == Cardinality(DOMAIN s)

RECURSIVE SumRow(_, _)
SumRow(s, n) ==
    IF n = 0 THEN Fin(0) ELSE FAdd(SumRow(s, n - 1), s[n])

RECURSIVE SumRows(_, _)
SumRows(A, n) ==
    IF n = 0 THEN Fin(0)
    ELSE FAdd(SumRows(A, n - 1), SumRow(A[n], Size(A[n])))

\* Mutant: the sum of an array without elements is NaN (as np.mean gives)
NpSum_EmptyIsNaN(A) ==
    IF \A i \in DOMAIN A : Size(A[i]) = 0 THEN NaN ELSE SumRows(A, Size(A))

\* np.sum(A): the sum of all elements, 0.0 for an array without elements
NpSum(A) == SumRows(A, Size(A))

---------------------------------------------------------------------------
(* surface_area *)

\* Mutant: resolution * 2. written for resolution ** 2.
resolution_doubled(res) == FMul(Num(2), res)

resolution_squared(res) == FSquare(res)

\* Mutant: the factor 2.0 of the diagonal forgotten
cross_distance_plain(res) == FSquare(res)

cross_distance_squared(res) == FMul(Num(2), FSquare(res))

\* Mutant: the elevation difference not squared
Length_RiseNotSquared(A, B, run2) ==
    [i \in DOMAIN A |-> [j \in DOMAIN A[i] |->
        FRoot(FAdd(FSub(A[i][j], B[i][j]), run2))]]

\* ((A - B) ** 2.0 + run2) ** 0.5, elementwise
Length(A, B, run2) ==
    [i \in DOMAIN A |-> [j \in DOMAIN A[i] |->
        FRoot(FAdd(FSquare(FSub(A[i][j], B[i][j])), run2))]]

m1(D, res) == Length(TopLeft(D), TopRight(D), resolution_squared(res))
m2(D, res) == Length(TopLeft(D), BottomLeft(D), resolution_squared(res))
m3(D, res) == Length(TopLeft(D), BottomRight(D), cross_distance_squared(res))
\* Mutant: the right edge taken from the top-left corner
m4_FromTopLeft(D, res) ==
    Length(TopLeft(D), BottomRight(D), resolution_squared(res))

m4(D, res) == Length(TopRight(D), BottomRight(D), resolution_squared(res))
m5(D, res) == Length(BottomLeft(D), BottomRight(D), resolution_squared(res))

\* 0.5 * (a + b + c), elementwise
Semi(a, b, c) ==
    [i \in DOMAIN a |-> [j \in DOMAIN a[i] |->
        FHalf(FAdd(FAdd(a[i][j], b[i][j]), c[i][j]))]]

\* the sides under s1 and under s2, in the order the program names them
\* Mutant: the left edge paired with the top edge
sides1_LeftWithTop(D, res) == <<m3(D, res), m2(D, res), m1(D, res)>>

\* Mutant: m5 written for m4
sides2_BottomForRight(D, res) == <<m3(D, res), m5(D, res), m1(D, res)>>

sides1(D, res) == <<m3(D, res), m5(D, res), m2(D, res)>>
sides2(D, res) == <<m3(D, res), m4(D, res), m1(D, res)>>

s1(D, res) == Semi(sides1(D, res)[1], sides1(D, res)[2], sides1(D, res)[3])
s2(D, res) == Semi(sides2(D, res)[1], sides2(D, res)[2], sides2(D, res)[3])

\* np.sqrt(s * (s - a) * (s - b) * (s - c)), elementwise
Heron(s, a, b, c) ==
    [i \in DOMAIN s |-> [j \in DOMAIN s[i] |->
        LET x == s[i][j]
        IN  FSqrt(FMul(FMul(FMul(x, FSub(x, a[i][j])), FSub(x, b[i][j])),
                       FSub(x, c[i][j])))]]

areas1(D, res) ==
    Heron(s1(D, res), sides1(D, res)[1], sides1(D, res)[2], sides1(D, res)[3])

areas2(D, res) ==
    Heron(s2(D, res), sides2(D, res)[1], sides2(D, res)[2], sides2(D, res)[3])

surface_area(D, res) ==
    FAdd(NpSum(areas1(D, res)), NpSum(areas2(D, res)))

---------------------------------------------------------------------------
(* Inputs *)

Shapes ==
    {sh \in (1..MaxRows) \X (1..MaxCols) : sh[1] * sh[2] <= MaxCells}

Cells(sh) == (1..sh[1]) \X (1..sh[2])

Flat(sh, e) == [i \in 1..sh[1] |-> [j \in 1..sh[2] |-> e]]

RECURSIVE Perturbed(_, _)
Perturbed(sh, n) ==
    IF n = 0 THEN {Flat(sh, Num(e)) : e \in 0..MaxElev}
    ELSE LET G == Perturbed(sh, n - 1)
         IN  G \cup {[g EXCEPT ![c[1]][c[2]] = Num(e)] :
                        g \in G, c \in Cells(sh), e \in 0..MaxElev}

FiniteGrids == UNION {Perturbed(sh, MaxPeaks) : sh \in Shapes}

NonFinite == {NaN, Inf(1), Inf(-1)}

PoisonedGrids ==
    UNION {{[Flat(sh, Num(e)) EXCEPT ![c[1]][c[2]] = x] :
               c \in Cells(sh), e \in 0..MaxElev, x \in NonFinite} :
           sh \in Shapes}

Resolutions == {Num(r) : r \in (-1)..MaxRes}

Rows(D) == Size(D)
Cols(D) == Size(D[1])

IsFinite(D) == \A c \in Cells(<<Rows(D), Cols(D)>>) : D[c[1]][c[2]].k = "fin"

---------------------------------------------------------------------------
(* The 2x2 neighbourhood with top-left corner n, as section 4.1 of the       *)
(* specification describes it                                                *)

Neighbourhoods(D) == (1..(Rows(D) - 1)) \X (1..(Cols(D) - 1))

TL(D, n) == D[n[1]][n[2]]
TR(D, n) == D[n[1]][n[2] + 1]
BL(D, n) == D[n[1] + 1][n[2]]
BR(D, n) == D[n[1] + 1][n[2] + 1]

\* sqrt((elevation_a - elevation_b)^2 + run^2)
Distance(a, b, run) == FSqrt(FAdd(FSquare(FSub(a, b)), FSquare(run)))

DiagonalRun(res) == FMul(res, FSqrt(Num(2)))

e_top(D, res, n) == Distance(TL(D, n), TR(D, n), res)
e_left(D, res, n) == Distance(TL(D, n), BL(D, n), res)
e_diag(D, res, n) == Distance(TL(D, n), BR(D, n), DiagonalRun(res))
e_right(D, res, n) == Distance(TR(D, n), BR(D, n), res)
e_bottom(D, res, n) == Distance(BL(D, n), BR(D, n), res)

\* area = sqrt(s*(s-a)*(s-b)*(s-c)), s = (a+b+c)/2, the radicand clamped to >= 0
TriangleArea(a, b, c) ==
    LET s == FHalf(FAdd(FAdd(a, b), c))
        q == FMul(FMul(FMul(s, FSub(s, a)), FSub(s, b)), FSub(s, c))
    IN  FSqrt(IF q.k = "fin" /\ q.v < 0 THEN Fin(0) ELSE q)

\* The two triangles of neighbourhood n that share the diagonal TL-BR
NeighbourhoodArea(D, res, n) ==
    FAdd(TriangleArea(e_diag(D, res, n), e_right(D, res, n), e_top(D, res, n)),
         TriangleArea(e_diag(D, res, n), e_left(D, res, n),
                      e_bottom(D, res, n)))

---------------------------------------------------------------------------
(* The program *)

\* D = np.array([[0, 0, 0],[0, 1, 0],[0, 0, 0]])
Pyramid == <<<<Num(0), Num(0), Num(0)>>,
             <<Num(0), Num(1), Num(0)>>,
             <<Num(0), Num(0), Num(0)>>>>

\* 4 * np.sqrt(2)
ExpectedPyramidArea == FMul(Num(4), FSqrt(Num(2)))

Init ==
    /\ DEM \in FiniteGrids \cup PoisonedGrids
    /\ resolution \in Resolutions
    /\ pc = "start"
    /\ area = Fin(0)
    /\ raised = FALSE
    /\ prev = <<>>
    /\ visited = {}
    /\ acc = Fin(0)

\* getSurfaceAreaFromDEM: area = surface_area(DEM, resolution=resolution).
\* surface_area has no raise statement and numpy reports an invalid value
\* by a warning, so the call always returns.
getSurfaceAreaFromDEM ==
    /\ pc = "start"
    /\ area' = surface_area(DEM, resolution)
    /\ raised' = FALSE
    /\ pc' = "done"
    /\ UNCHANGED <<DEM, resolution, prev, visited, acc>>

\* A further call, on the grid with the elevation of cell c increased by one
RaiseAndCall(c) ==
    /\ pc = "done"
    /\ IsFinite(DEM)
    /\ resolution.v > 0
    /\ c \in Cells(<<Rows(DEM), Cols(DEM)>>)
    /\ prev' = [DEM |-> DEM, area |-> area, cell |-> c]
    /\ DEM' = [DEM EXCEPT ![c[1]][c[2]] = FAdd(@, Num(1))]
    /\ area' = surface_area(DEM', resolution)
    /\ raised' = FALSE
    /\ pc' = "raised"
    /\ UNCHANGED <<resolution, visited, acc>>

Transpose(D) == [j \in 1..Cols(D) |-> [i \in 1..Rows(D) |-> D[i][j]]]

\* A further call, on the transposed grid
TransposeAndCall ==
    /\ pc = "done"
    /\ IsFinite(DEM)
    /\ prev' = [DEM |-> DEM, area |-> area, cell |-> <<0, 0>>]
    /\ DEM' = Transpose(DEM)
    /\ area' = surface_area(DEM', resolution)
    /\ raised' = FALSE
    /\ pc' = "transposed"
    /\ UNCHANGED <<resolution, visited, acc>>

\* One pass of an explicit loop over the neighbourhoods: neighbourhood n,
\* not visited before, adds its two triangle areas to the running total
Visit(n) ==
    /\ pc \in {"done", "loop"}
    /\ n \in Neighbourhoods(DEM) \ visited
    /\ acc' = FAdd(acc, NeighbourhoodArea(DEM, resolution, n))
    /\ visited' = visited \cup {n}
    /\ pc' = "loop"
    /\ UNCHANGED <<DEM, resolution, area, raised, prev>>

Next == getSurfaceAreaFromDEM

Spec == Init /\ [][Next]_vars

NextRelief ==
    \/ getSurfaceAreaFromDEM
    \/ \E c \in (1..MaxRows) \X (1..MaxCols) : RaiseAndCall(c)

InitValid == Init /\ IsFinite(DEM) /\ resolution.v > 0

SpecRelief == InitValid /\ [][NextRelief]_vars

NextTranspose ==
    \/ getSurfaceAreaFromDEM
    \/ TransposeAndCall

NextLoop ==
    \/ getSurfaceAreaFromDEM
    \/ \E n \in (1..MaxRows) \X (1..MaxCols) : Visit(n)

SpecLoop == InitValid /\ [][NextLoop]_vars

InitTranspose == Init /\ IsFinite(DEM)

SpecTranspose == InitTranspose /\ [][NextTranspose]_vars

---------------------------------------------------------------------------
(* Vocabulary of the properties *)

AllEqual(D) == \A c \in Cells(<<Rows(D), Cols(D)>>) : D[c[1]][c[2]] = D[1][1]

\* (rows-1)*(cols-1)*r*r
FlatArea(D, res) == FMul(Num((Rows(D) - 1) * (Cols(D) - 1)), FMul(res, res))

\* |a - b| <= t units, for finite a and b
Within(a, b, t) == a.k = "fin" /\ b.k = "fin" /\ Abs(a.v - b.v) <= t

\* The rounding slack granted to a computed area of size x: half a percent
\* and two units (the arithmetic above rounds every product and root).
RoundOff(x) == Abs(x.v) \div 200 + 2

Close(a, b) == Within(a, b, RoundOff(b))

ValidCall == pc = "done" /\ IsFinite(DEM) /\ resolution.v > 0

Proper(D) == Rows(D) >= 2 /\ Cols(D) >= 2

---------------------------------------------------------------------------
\* C1: the 3x3 pyramid [[0,0,0],[0,1,0],[0,0,0]] at resolution 1.0 yields an
\* area within 1e-3 (plus the rounding slack) of 4*sqrt(2).
C1_KnownPyramid ==
    pc = "done" /\ DEM = Pyramid /\ resolution = Num(1)
        => Within(area, ExpectedPyramidArea,
                  Scale \div 1000 + RoundOff(ExpectedPyramidArea))

\* C2: a grid with at least 2 rows and 2 columns whose elevations are all
\* identical has, for every resolution r > 0, the area (rows-1)*(cols-1)*r*r,
\* up to rounding.
C2_FlatGrid ==
    ValidCall /\ Proper(DEM) /\ AllEqual(DEM)
        => Close(area, FlatArea(DEM, resolution))

C2_Witness ==
    /\ ValidCall /\ AllEqual(DEM)
    /\ Rows(DEM) = 3 /\ Cols(DEM) = 3 /\ resolution = Num(2)
    /\ DEM[1][1] = Num(1)
    /\ Close(area, Num(16))

\* C3, as claimed: for every grid and r > 0 the area is at least the flat
\* projected area and equals it if and only if all elevations are equal,
\* grids with a single row or a single column included.
C3_AsClaimed ==
    ValidCall
        => /\ area.k = "fin"
           /\ area.v + RoundOff(area) >= FlatArea(DEM, resolution).v
           /\ Close(area, FlatArea(DEM, resolution)) <=> AllEqual(DEM)

\* C3, amended: for every grid and r > 0 the area is at least the flat
\* projected area; for a grid with at least 2 rows and 2 columns it equals the
\* flat projected area if and only if all elevations are equal, and for a grid
\* with a single row or column it equals it (both are 0) whatever the
\* elevations.
C3_FlatBound ==
    ValidCall
        => /\ area.k = "fin"
           /\ area.v + RoundOff(area) >= FlatArea(DEM, resolution).v
           /\ Proper(DEM)
                => (Close(area, FlatArea(DEM, resolution)) <=> AllEqual(DEM))
           /\ ~Proper(DEM) => area = FlatArea(DEM, resolution)

C3_Witness ==
    /\ ValidCall /\ Proper(DEM) /\ ~AllEqual(DEM)
    /\ area.v > FlatArea(DEM, resolution).v + RoundOff(area)

\* C5: a call with resolution = 0 or a negative resolution ends in an
\* invalid-argument error and returns no numeric result.
C5_InvalidResolutionRejected ==
    pc = "done" /\ IsFinite(DEM) /\ resolution.v <= 0 => raised

\* C6: a call with a grid holding a NaN or an infinite cell ends in an
\* invalid-argument error and returns no result.
C6_NonFiniteRejected ==
    pc = "done" /\ ~IsFinite(DEM) /\ resolution.v > 0 => raised

\* C7: for a grid with exactly 1 row or exactly 1 column, whatever its
\* elevations and whatever the resolution, the call returns exactly 0 and
\* reports no error.
C7_Degenerate ==
    pc = "done" /\ (Rows(DEM) = 1 \/ Cols(DEM) = 1)
        => area = Fin(0) /\ ~raised

C7_Witness ==
    /\ pc = "done" /\ Rows(DEM) = 1 /\ Cols(DEM) = 3
    /\ ~AllEqual(DEM) /\ resolution = Num(2)
    /\ area = Fin(0)

---------------------------------------------------------------------------
\* The sides of the two triangles the program adds for neighbourhood n
CodeTriangle1(D, res, n) ==
    [k \in 1..3 |-> sides1(D, res)[k][n[1]][n[2]]]
CodeTriangle2(D, res, n) ==
    [k \in 1..3 |-> sides2(D, res)[k][n[1]][n[2]]]

Perms3 == {p \in [1..3 -> 1..3] : {p[1], p[2], p[3]} = 1..3}

\* t and u have the same three side lengths, up to rounding of a length
SameSides(t, u) == \E p \in Perms3 : \A k \in 1..3 : Within(t[k], u[p[k]], 2)

\* the program's two triangles are t and u, in either order
AddsTriangles(D, res, n, t, u) ==
    \/ SameSides(CodeTriangle1(D, res, n), t)
          /\ SameSides(CodeTriangle2(D, res, n), u)
    \/ SameSides(CodeTriangle1(D, res, n), u)
          /\ SameSides(CodeTriangle2(D, res, n), t)

\* C8, as claimed: in every neighbourhood the two triangles whose areas are
\* added have the sides {e_diag, e_left, e_top} and {e_diag, e_right,
\* e_bottom}.
C8_AsClaimed ==
    ValidCall =>
        \A n \in Neighbourhoods(DEM) :
            AddsTriangles(DEM, resolution, n,
                <<e_diag(DEM, resolution, n), e_left(DEM, resolution, n),
                  e_top(DEM, resolution, n)>>,
                <<e_diag(DEM, resolution, n), e_right(DEM, resolution, n),
                  e_bottom(DEM, resolution, n)>>)

\* C8, amended: in every neighbourhood the two triangles whose areas are added
\* have the sides {e_diag, e_right, e_top} (TL-BR, TR-BR, TL-TR) and {e_diag,
\* e_left, e_bottom} (TL-BR, TL-BL, BL-BR), every edge length being
\* sqrt(rise^2 + run^2) with run = resolution for the border edges and
\* resolution*sqrt(2) for the diagonal.
C8_Triangles ==
    ValidCall =>
        \A n \in Neighbourhoods(DEM) :
            AddsTriangles(DEM, resolution, n,
                <<e_diag(DEM, resolution, n), e_right(DEM, resolution, n),
                  e_top(DEM, resolution, n)>>,
                <<e_diag(DEM, resolution, n), e_left(DEM, resolution, n),
                  e_bottom(DEM, resolution, n)>>)

C8_Witness ==
    /\ ValidCall
    /\ \E n \in Neighbourhoods(DEM) :
          /\ ~Within(e_top(DEM, resolution, n), e_bottom(DEM, resolution, n), 2)
          /\ ~Within(e_left(DEM, resolution, n), e_right(DEM, resolution, n), 2)
          /\ area.v > FlatArea(DEM, resolution).v + RoundOff(area)

---------------------------------------------------------------------------
\* The cells joined to cell c by an edge of the triangulation
Joined(D, c) ==
    {n \in Cells(<<Rows(D), Cols(D)>>) :
        <<n[1] - c[1], n[2] - c[2]>> \in
            {<<-1, 0>>, <<1, 0>>, <<0, -1>>, <<0, 1>>, <<-1, -1>>, <<1, 1>>}}

NotBelowJoined(D, c) ==
    \A n \in Joined(D, c) : D[n[1]][n[2]].v <= D[c[1]][c[2]].v

\* C4, as claimed: for every grid, cell and r > 0, increasing the elevation of
\* that one cell never decreases the area (beyond the rounding slack).
C4_AsClaimed ==
    pc = "raised" => area.v + RoundOff(area) >= prev.area.v

\* C4, amended: for every grid, every r > 0 and every cell that is not lower
\* than any cell joined to it by an edge of the triangulation (its left,
\* right, upper, lower, upper-left and lower-right neighbours), increasing the
\* elevation of that one cell never decreases the area.
C4_MonotoneFromTop ==
    pc = "raised" /\ NotBelowJoined(prev.DEM, prev.cell)
        => area.v >= prev.area.v

C4_Witness ==
    /\ pc = "raised" /\ NotBelowJoined(prev.DEM, prev.cell)
    /\ Proper(DEM) /\ ~AllEqual(prev.DEM)
    /\ area.v > prev.area.v

---------------------------------------------------------------------------
\* C10: for every grid D and resolution r, surface_area(transpose(D), r)
\* equals surface_area(D, r).
C10_Transposition ==
    pc = "transposed" => area = prev.area

C10_Witness ==
    /\ pc = "transposed" /\ Proper(DEM) /\ Rows(DEM) # Cols(DEM)
    /\ resolution.v > 0
    /\ \E n \in Neighbourhoods(prev.DEM) :
          ~Within(e_top(prev.DEM, resolution, n),
                  e_left(prev.DEM, resolution, n), 2)
    /\ area = prev.area

---------------------------------------------------------------------------
====
